---- MODULE Spec2Model ----
(*****************************************************************************)
(* Model of GreenhouseAutoApplyBot (cdk/src/helpers/test-run.ts): one       *)
(* invocation of runWithStats() on a fresh bot instance (Spec), and, each   *)
(* with a specification of its own, loadAllJobs (LoadSpec), the filling of  *)
(* one form (FormSpec), one searchJobs call (SearchSpec), close() and       *)
(* saveSession() (CloseSpec), the failure sink of storage.ts (StorageSpec), *)
(* the paths of run() and runWithStats() with the browser they leave        *)
(* (PathSpec), run() of the earlier index.ts (LegacySpec) and the paginated *)
(* apply loop of a still earlier one (PagedSpec). The browser, the oracle,  *)
(* the job board, the file system and the clock are the environment: every  *)
(* observation the code makes of them (session probe, element lookups, new  *)
(* tab or not, elapsed time, success indicator, oracle response, thrown     *)
(* automation errors) is a nondeterministic choice. The single thread of    *)
(* control of a run is the variable pc.                                     *)
(*****************************************************************************)
EXTENDS Integers, Sequences, FiniteSets, TLC

\* ---------------------------------------------------------------- bounds
MaxJobs == 3        \* most jobs searchJobs returns in the model
MaxCfg == 2         \* largest explicit MAX_APPLICATIONS value tried
MaxCount == 2       \* most job elements the listing page shows at once
MaxFields == 2      \* most fields of one form that need an answer
MaxFlushes == 2     \* most saveBatch calls on one sink
MaxCalls == 3       \* most close() and saveSession() calls on one bot

\* ------------------------------------------------------ program constants
DefaultMaxApplications == 10
maxAttempts == 50
MaxAnswerLength == 200
TruncatedLength == 197
MinAnswerLength == 10

\* ------------------------------------------------------------- variables
VARIABLES
  pc,                 \* position of the single thread of control
  hasSavedContext,    \* fsSync.existsSync(this.contextPath)
  browser,            \* this.browser: "null", "open" or "closed"
  page,               \* this.page: NoPage, ListingPage or the tab of job i
  pages,              \* context.pages(), in creation order
  listingUrl,         \* what the listing page shows: "search" or "job"
  jobs,               \* searchJobs() result: sequence of display titles
  maxJobs,            \* parseInt(MAX_APPLICATIONS || '10')
  jobsToApply,        \* jobs.slice(0, maxJobs)
  idx,                \* iterations of the apply loop started so far
  successCount,       \* successCount of the loop
  jobsFound,          \* local jobsFound of runWithStats
  jobsApplied,        \* local jobsApplied of runWithStats
  failedSubmissions,  \* this.failedSubmissions
  failedApplications, \* this.failedApplications
  passed,             \* every record handed to storage.saveBatch, in order
  wf,                 \* locals of the workflow in flight
  inflight,           \* jobs whose applyToJob has started and not returned
  log,                \* history: start and end of every applyToJob call
  delays,             \* number of inter-application sleeps taken
  allFailedJobs,      \* local allFailedJobs of runWithStats
  pending,            \* completion pending while finally runs
  result,             \* what runWithStats gave its caller
  la,                 \* locals of loadAllJobs and what it has observed
  ff,                 \* one pass of form filling: fields, answers, calls
  lg,                 \* the earlier index.ts run(): session probes and login
  sj,                 \* one searchJobs call: the page and what was done to it
  st,                 \* the failure sink: what was flushed and what is kept
  cs,                 \* close() and saveSession() calls and what they left
  rn,                 \* the paths of run() and runWithStats() and the browser
  pg                  \* the paginated apply loop of the earlier run()

vars == <<pc, hasSavedContext, browser, page, pages, listingUrl, jobs, maxJobs,
          jobsToApply, idx, successCount, jobsFound, jobsApplied,
          failedSubmissions, failedApplications, passed, wf, inflight, log,
          delays, allFailedJobs, pending, result, la, ff, lg, sj, st, cs,
          rn, pg>>

\* State of the parts below that have a specification of their own.
auxVars == <<la, ff, lg, sj, st, cs, rn, pg>>

NoPage == -1
ListingPage == 0

Min(a, b) == IF a < b THEN a ELSE b

NoWf == [job |-> 0, overBudget |-> FALSE, lateBeforeSubmit |-> FALSE,
         retries |-> 0, submitActivated |-> FALSE,
         indicatorSeen |-> FALSE, submissionSuccessful |-> FALSE,
         applyFound |-> FALSE, confirm |-> "none", ok |-> FALSE,
         cause |-> "none", staleClick |-> FALSE, stages |-> <<>>]

NoResult == [kind |-> "none", jobsFound |-> 0, jobsApplied |-> 0,
             jobsFailed |-> 0, failedJobs |-> <<>>]

\* ------------------------------------------------------- failure journal
\* One journal record.  job stands for the url and timestamp fields, which
\* identify the attempt the record was written by.
Entry(j, reason) == [job |-> j, title |-> jobs[j], reason |-> reason]

Typed(e, type) ==
  [job |-> e.job, title |-> e.title, reason |-> e.reason, type |-> type]

\* storage.saveBatch(batch): an empty batch is ignored.
SaveBatch(p, batch) == IF Len(batch) = 0 THEN p ELSE p \o batch

\* Variant: only the newest record is handed over.
SubmissionBatchNewest(fs) == <<Typed(fs[Len(fs)], "submission")>>

\* The batch saveFailedSubmissions builds from this.failedSubmissions.
SubmissionBatch(fs) == [k \in 1..Len(fs) |-> Typed(fs[k], "submission")]

\* The batch saveFailedApplications builds from this.failedApplications.
ApplicationBatch(fa) == [k \in 1..Len(fa) |-> Typed(fa[k], "application")]

\* Variant: the early return taken for every list, nothing is handed over.
SaveFailedSubmissionsNever(p, fs) == p

SaveFailedSubmissions(p, fs) ==
  IF Len(fs) = 0 THEN p ELSE SaveBatch(p, SubmissionBatch(fs))

SaveFailedApplications(p, fa) ==
  IF Len(fa) = 0 THEN p ELSE SaveBatch(p, ApplicationBatch(fa))

\* The flush at the end of the try block and in the catch block.
FlushBoth(p, fs, fa) ==
  SaveFailedApplications(SaveFailedSubmissions(p, fs), fa)

\* ------------------------------------------------------------ tab handling
RemovePage(ps, p) == SelectSeq(ps, LAMBDA q : q # p)

\* "Close the job tab and switch back to main page": only with more than
\* one page open is this.page closed and pages[0] made the active page.
PagesAfterClose(ps, p) == IF Len(ps) > 1 THEN RemovePage(ps, p) ELSE ps

PageAfterClose(ps, p) ==
  IF Len(ps) > 1 /\ Len(RemovePage(ps, p)) > 0
    THEN RemovePage(ps, p)[1]
    ELSE p

\* A view-button handle can be clicked only while the listing page is open
\* and still shows the search results it was taken from.
HandleUsable == ListingPage \in {pages[k] : k \in 1..Len(pages)}
                /\ listingUrl = "search"

\* ------------------------------------------------------------ orchestrator
\* Variant: the slice left out.
JobsToApplyAll(js, m) == js

\* jobs.slice(0, maxJobs)
JobsToApply(js, m) == SubSeq(js, 1, Min(Len(js), m))

MaxOf(S) == CHOOSE x \in S : \A y \in S : y <= x

\* The titles of n discovered jobs.  Titles are only ever compared for
\* equality, so each pattern of equal and distinct titles is listed once:
\* the first job has title 1, a later job has an earlier job's title or the
\* next unused one.
TitleLists(n) ==
  {t \in [1..n -> 1..n] :
     \A k \in 1..n : t[k] <= 1 + MaxOf({t[i] : i \in 1..(k - 1)} \cup {0})}

\* parseInt(process.env.MAX_APPLICATIONS || '10', 10); <<>> is the unset
\* variable, <<m>> the variable set to the number m.
MaxJobsOf(env) == IF env = <<>> THEN DefaultMaxApplications ELSE env[1]

\* Variant: the list walked from its end.
LoopJobReversed(k) == Len(jobsToApply) - k + 1

\* The job the k-th iteration of "for (const job of jobsToApply)" visits.
LoopJob(k) == k

\* Variant: applyToJob not awaited, the loop goes on while it runs.
LoopMayStartNoAwait ==
  pc \in {"loop", "open", "autofill", "apply", "submit", "confirm", "finish"}

\* The loop body awaits applyToJob: the next iteration starts only when the
\* thread is back at the loop head.
LoopMayStart == pc = "loop"

\* Variant: the catch block rethrows to the caller.
AfterApplyErrorRethrow == "catch"

\* Where control goes from the catch block of applyToJob: "return false".
AfterApplyError == "ret"

NoLa == [pc |-> "idle", previousJobCount |-> 0, currentJobCount |-> 0,
         attempts |-> 0, calls |-> 0, lastCount |-> -1, stable |-> FALSE,
         afterStable |-> 0]
NoLast == [kind |-> "none", question |-> [text |-> <<>>, cats |-> {}],
           outcome |-> [kind |-> "none", content |-> <<>>],
           called |-> FALSE, returned |-> <<>>, written |-> <<>>,
           basic |-> "", aiAnswer |-> "", selected |-> "",
           exempt |-> FALSE, consulted |-> FALSE]
NoFf == [pc |-> "idle", configured |-> FALSE, n |-> 0, filledFields |-> {},
         calls |-> <<>>, unasked |-> 0, exempted |-> {}, last |-> NoLast]
NoSj == [pc |-> "idle", shouldNavigate |-> FALSE, doc |-> 0, url |-> "search",
         matching |-> <<>>, gotos |-> 0, loadAllCalls |-> 0,
         before |-> [doc |-> 0, url |-> "search", matching |-> <<>>],
         returned |-> <<>>]
NoGot == [read |-> FALSE, jobs |-> <<>>]
NoSt == [pc |-> "idle", dynamo |-> FALSE, table |-> {}, uuids |-> 0,
         submissions |-> <<>>, applications |-> <<>>, flushed |-> <<>>,
         ioErrors |-> 0, got |-> NoGot]
NoKept == [browser |-> "null", closed |-> FALSE, page |-> FALSE,
           session |-> 1, file |-> 0]
NoRn == [pc |-> "idle", which |-> "run", saved |-> FALSE, field |-> "null",
         proc |-> "none", page |-> FALSE, closeLast |-> FALSE, found |-> 0,
         left |-> 0, tabs |-> 0, successCount |-> 0, pending |-> "none", outcome |-> "none"]
NoPg == [pc |-> "idle", shown |-> 0, maxJobs |-> 0, totalProcessed |-> 0,
         allJobsProcessed |-> FALSE, toApply |-> 0, cur |-> 0,
         attempted |-> {}, again |-> FALSE]
NoCs == [pc |-> "idle", kept |-> NoKept, orig |-> NoKept, lastOp |-> "none",
         again |-> FALSE, error |-> FALSE, calls |-> 0]
NoLg == [pc |-> "idle", browser |-> "null", page |-> "none",
         initProbe |-> "none", lastProbe |-> "none", loginCalls |-> 0,
         toApply |-> 0, idx |-> 0, successCount |-> 0, closes |-> 0]

Init ==
  /\ la = NoLa
  /\ ff = NoFf
  /\ lg = NoLg
  /\ sj = NoSj
  /\ st = NoSt
  /\ cs = NoCs
  /\ rn = NoRn
  /\ pg = NoPg
  /\ pc = "start"
  /\ hasSavedContext \in BOOLEAN
  /\ browser = "null"
  /\ page = NoPage
  /\ pages = <<>>
  /\ listingUrl = "search"
  /\ jobs = <<>>
  /\ maxJobs = 0
  /\ jobsToApply = <<>>
  /\ idx = 0
  /\ successCount = 0
  /\ jobsFound = 0
  /\ jobsApplied = 0
  /\ failedSubmissions = <<>>
  /\ failedApplications = <<>>
  /\ passed = <<>>
  /\ wf = NoWf
  /\ inflight = {}
  /\ log = <<>>
  /\ delays = 0
  /\ allFailedJobs = <<>>
  /\ pending = "none"
  /\ result = NoResult

runVars == <<hasSavedContext, jobs, maxJobs, jobsToApply, idx, successCount,
             jobsFound, jobsApplied, delays, allFailedJobs, pending, result>>
journalVars == <<failedSubmissions, failedApplications, passed>>
pageVars == <<browser, page, pages, listingUrl>>
histVars == <<inflight, log>>

\* initializeBrowser()
InitializeBrowser ==
  /\ pc = "start"
  /\ IF ~hasSavedContext
       THEN /\ pc' = "catch"
            /\ UNCHANGED <<browser, page, pages>>
       ELSE \E probe \in {"valid", "invalid", "error"} :
              /\ browser' = IF probe = "valid" THEN "open" ELSE "null"
              /\ page' = IF probe = "valid" THEN ListingPage ELSE NoPage
              /\ pages' = IF probe = "valid" THEN <<ListingPage>> ELSE <<>>
              /\ pc' = IF probe = "error" THEN "catch" ELSE "verify"
  /\ UNCHANGED <<listingUrl, wf>>
  /\ UNCHANGED runVars /\ UNCHANGED journalVars /\ UNCHANGED histVars
  /\ UNCHANGED auxVars

\* const isAuthenticated = await this.verifySession(); throw if false
VerifySession ==
  /\ pc = "verify"
  /\ IF page = NoPage
       THEN pc' = "catch"
       ELSE \E ok \in BOOLEAN : pc' = IF ok THEN "search" ELSE "catch"
  /\ UNCHANGED <<wf>>
  /\ UNCHANGED runVars /\ UNCHANGED journalVars /\ UNCHANGED histVars
  /\ UNCHANGED pageVars
  /\ UNCHANGED auxVars

\* const jobs = await this.searchJobs(); the empty-result return; the slice
SearchJobs ==
  /\ pc = "search"
  /\ \/ /\ pc' = "catch"
        /\ UNCHANGED <<jobs, jobsFound, maxJobs, jobsToApply, pending>>
     \/ \E n \in 0..MaxJobs :
        \E titles \in TitleLists(n) :
        \E env \in {<<>>} \cup {<<m>> : m \in 0..MaxCfg} :
          /\ jobs' = titles
          /\ jobsFound' = n
          /\ IF n = 0
               THEN /\ pending' = "returnEmpty"
                    /\ pc' = "finally"
                    /\ UNCHANGED <<maxJobs, jobsToApply>>
               ELSE /\ maxJobs' = MaxJobsOf(env)
                    /\ jobsToApply' = JobsToApply(titles, MaxJobsOf(env))
                    /\ pc' = "loop"
                    /\ UNCHANGED pending
  /\ UNCHANGED <<hasSavedContext, idx, successCount, jobsApplied, delays,
                 allFailedJobs, result, wf>>
  /\ UNCHANGED journalVars /\ UNCHANGED histVars /\ UNCHANGED pageVars
  /\ UNCHANGED auxVars

\* --------------------------------------------------------------- apply loop
\* for (const job of jobsToApply) { const success = await this.applyToJob(job)
\* and the entry of applyToJob up to its try block.
StartApply ==
  /\ LoopMayStart
  /\ idx < Len(jobsToApply)
  /\ idx' = idx + 1
  /\ IF page = NoPage
       THEN /\ pc' = "catch"
            /\ UNCHANGED <<wf, inflight, log>>
       ELSE /\ pc' = "open"
            /\ wf' = [NoWf EXCEPT !.job = LoopJob(idx + 1)]
            /\ inflight' = inflight \cup {LoopJob(idx + 1)}
            /\ log' = Append(log, [ev |-> "start", job |-> LoopJob(idx + 1),
                                   ok |-> FALSE, cause |-> "none"])
  /\ UNCHANGED <<hasSavedContext, jobs, maxJobs, jobsToApply, successCount,
                 jobsFound, jobsApplied, delays, allFailedJobs, pending,
                 result>>
  /\ UNCHANGED journalVars /\ UNCHANGED pageVars
  /\ UNCHANGED auxVars

\* applyToJob: click the view button, pick up the new tab if one opened,
\* make it this.page, then enter performJobApplication.  The click throws
\* on a handle that is no longer usable, and may throw otherwise.
OpenJob ==
  /\ pc = "open"
  /\ \E threw \in BOOLEAN : \E newTab \in BOOLEAN :
       IF threw \/ ~HandleUsable
         THEN /\ pc' = AfterApplyError
              /\ wf' = [wf EXCEPT !.ok = FALSE, !.cause = "openError",
                                  !.staleClick = ~HandleUsable]
              /\ UNCHANGED pageVars
         ELSE /\ pc' = "autofill"
              /\ wf' = wf
              /\ pages' = IF newTab THEN Append(pages, wf.job) ELSE pages
              /\ page' = IF newTab THEN wf.job ELSE page
              /\ listingUrl' = IF newTab THEN listingUrl ELSE "job"
              /\ UNCHANGED browser
  /\ UNCHANGED runVars /\ UNCHANGED journalVars /\ UNCHANGED histVars
  /\ UNCHANGED auxVars

\* performJobApplication up to the first budget check: autofill attempt,
\* scroll to the end of the page, "exceeded 30 seconds before finding apply
\* button".
AutofillAttempt ==
  /\ pc = "autofill"
  /\ \E threw \in BOOLEAN : \E late \in BOOLEAN :
       LET ob == wf.overBudget \/ late IN
       IF threw
         THEN /\ pc' = "wfcatch"
              /\ wf' = [wf EXCEPT !.overBudget = ob, !.lateBeforeSubmit = ob,
                                  !.stages = Append(@, "autofill")]
              /\ UNCHANGED journalVars
         ELSE IF ob
           THEN /\ failedApplications' =
                     Append(failedApplications,
                            Entry(wf.job, "exceeded30_before_apply"))
                /\ passed' = SaveFailedApplications(passed, failedApplications')
                /\ wf' = [wf EXCEPT !.overBudget = ob, !.lateBeforeSubmit = ob,
                                    !.ok = FALSE,
                                    !.cause = "budget",
                                    !.stages = Append(@, "autofill")]
                /\ pc' = "ret"
                /\ UNCHANGED failedSubmissions
           ELSE /\ pc' = "apply"
                /\ wf' = [wf EXCEPT !.stages = Append(@, "autofill")]
                /\ UNCHANGED journalVars
  /\ UNCHANGED runVars /\ UNCHANGED pageVars /\ UNCHANGED histVars
  /\ UNCHANGED auxVars

\* Variant: the workflow goes on to the form without an apply button.
AfterNoApplyGoesOn == "submit"

\* if (!applyButton) { ... return false; }
AfterNoApply == "ret"

\* No apply button: journal only if the budget is exceeded, close the job
\* tab, return false.
ApplyNotFound ==
  /\ pc = "apply"
  /\ \E threw \in BOOLEAN : \E late \in BOOLEAN :
       LET ob == wf.overBudget \/ late IN
       /\ failedApplications' =
            IF ob THEN Append(failedApplications,
                              Entry(wf.job, "exceeded30_apply_not_found"))
                  ELSE failedApplications
       /\ passed' = IF ob
                      THEN SaveFailedApplications(passed, failedApplications')
                      ELSE passed
       /\ IF threw /\ Len(pages) > 1
            THEN /\ pc' = "wfcatch"
                 /\ wf' = [wf EXCEPT !.overBudget = ob, !.lateBeforeSubmit = ob]
                 /\ UNCHANGED <<pages, page>>
            ELSE /\ pc' = AfterNoApply
                 /\ wf' = [wf EXCEPT !.overBudget = ob,
                                     !.lateBeforeSubmit = ob, !.ok = FALSE,
                                     !.cause = "noApply"]
                 /\ pages' = PagesAfterClose(pages, page)
                 /\ page' = PageAfterClose(pages, page)
  /\ UNCHANGED <<failedSubmissions, browser, listingUrl>>
  /\ UNCHANGED runVars /\ UNCHANGED histVars
  /\ UNCHANGED auxVars

\* Apply button found and clicked; the budget checks after the click and
\* after the form has loaded.
ApplyFound ==
  /\ pc = "apply"
  /\ \E threw \in BOOLEAN : \E late \in {"no", "afterApply", "afterForm"} :
       IF threw
         THEN /\ pc' = "wfcatch"
              /\ wf' = [wf EXCEPT !.overBudget = (late # "no"),
                                  !.lateBeforeSubmit = (late # "no")]
              /\ UNCHANGED journalVars
         ELSE IF late # "no"
           THEN /\ failedApplications' =
                     Append(failedApplications,
                            Entry(wf.job, IF late = "afterApply"
                                            THEN "exceeded30_after_apply"
                                            ELSE "exceeded30_after_form"))
                /\ passed' = SaveFailedApplications(passed, failedApplications')
                /\ wf' = [wf EXCEPT !.overBudget = TRUE,
                                    !.lateBeforeSubmit = TRUE,
                                    !.applyFound = TRUE,
                                    !.ok = FALSE, !.cause = "budget",
                                    !.stages = Append(@, "apply")]
                /\ pc' = "ret"
                /\ UNCHANGED failedSubmissions
           ELSE /\ pc' = "submit"
                /\ wf' = [wf EXCEPT !.applyFound = TRUE,
                                    !.stages = Append(@, "apply")]
                /\ UNCHANGED journalVars
  /\ UNCHANGED runVars /\ UNCHANGED pageVars /\ UNCHANGED histVars
  /\ UNCHANGED auxVars

\* Variant: without a submit button success needs the indicator.
ConfirmedWithoutSubmit(successConfirmed) == successConfirmed

\* submissionSuccessful = true in all three branches after the 5 s wait
AssumedWithoutSubmit(successConfirmed) == TRUE

\* Form filling, then no submit button found, not even after the autofill
\* retry and the second lookup: wait 5 s for an indicator and assume success
\* either way.
SubmitNotFound ==
  /\ pc = "submit"
  /\ \E threw \in BOOLEAN : \E late \in BOOLEAN : \E seen \in BOOLEAN :
       IF threw
         THEN /\ pc' = "wfcatch"
              /\ wf' = [wf EXCEPT !.overBudget = late,
                                  !.lateBeforeSubmit = late,
                                  !.stages = Append(@, "form")]
         ELSE /\ pc' = "finish"
              /\ wf' = [wf EXCEPT !.overBudget = late,
                                  !.lateBeforeSubmit = late,
                                  !.indicatorSeen = seen,
                                  !.submissionSuccessful =
                                     AssumedWithoutSubmit(seen),
                                  !.stages = @ \o <<"form", "confirm">>]
  /\ UNCHANGED runVars /\ UNCHANGED pageVars /\ UNCHANGED histVars
  /\ UNCHANGED journalVars
  /\ UNCHANGED auxVars

\* Form filling, then the submit button is found (at the first or the second
\* lookup) and clicked.
SubmitClick ==
  /\ pc = "submit"
  /\ \E threw \in BOOLEAN : \E late \in BOOLEAN :
       IF threw
         THEN /\ pc' = "wfcatch"
              /\ wf' = [wf EXCEPT !.overBudget = late,
                                  !.lateBeforeSubmit = late,
                                  !.stages = Append(@, "form")]
         ELSE /\ pc' = "confirm"
              /\ wf' = [wf EXCEPT !.overBudget = late,
                                  !.lateBeforeSubmit = late,
                                  !.submitActivated = TRUE,
                                  !.stages = @ \o <<"form", "submit">>]
  /\ UNCHANGED runVars /\ UNCHANGED pageVars /\ UNCHANGED histVars
  /\ UNCHANGED journalVars
  /\ UNCHANGED auxVars

\* The confirmation wait after the click, waitForSubmissionSuccess(60000),
\* and the catch block around it.
\*   seen      the wait returned true
\*   timeout   the wait returned false after 60 s
\*   lateThrow the wait threw, 60 s or more after the click
\*   retrySeen the wait threw earlier; autofill, resubmit, indicator seen
\*   errors    the wait threw earlier; no success; error messages on page
\*   assumed   the wait threw earlier; no success; no error messages
\*   threw     the wait threw earlier; the retry itself threw
\* The retry (autofill, second click on submit, 10 s wait) is in the catch
\* block only, under elapsedTime < timeoutMs, and clicks only if autofill
\* was triggered and a submit button was found again.
ResubmitsAfter(out) ==
  IF out = "retrySeen" THEN {1}
  ELSE IF out \in {"errors", "assumed"} THEN {0, 1}
  ELSE {0}

ConfirmWait ==
  /\ pc = "confirm"
  /\ \E out \in {"seen", "timeout", "lateThrow", "retrySeen", "errors",
                 "assumed", "threw"} :
     \E late \in BOOLEAN :
     \E retries \in ResubmitsAfter(out) :
       LET ob == wf.overBudget \/ late \/ out \in {"timeout", "lateThrow"} IN
       /\ pc' = IF out = "threw" THEN "wfcatch" ELSE "finish"
       /\ wf' = [wf EXCEPT
                   !.overBudget = ob,
                   !.confirm = out,
                   !.retries = retries,
                   !.stages = Append(@, "confirm"),
                   !.indicatorSeen = out \in {"seen", "retrySeen"},
                   !.submissionSuccessful =
                      out \in {"seen", "retrySeen", "assumed"}]
       /\ failedSubmissions' =
            IF out = "lateThrow"
              THEN Append(failedSubmissions,
                          Entry(wf.job, "submission_timeout"))
            ELSE IF out = "errors"
              THEN Append(failedSubmissions,
                          Entry(wf.job, "error_messages"))
            ELSE failedSubmissions
       /\ passed' = IF out \in {"lateThrow", "errors"}
                      THEN SaveFailedSubmissions(passed, failedSubmissions')
                      ELSE passed
  /\ UNCHANGED failedApplications
  /\ UNCHANGED runVars /\ UNCHANGED pageVars /\ UNCHANGED histVars
  /\ UNCHANGED auxVars

\* if (submissionSuccessful): close the job tab, switch back, return true.
FinishSuccess ==
  /\ pc = "finish"
  /\ wf.submissionSuccessful
  /\ \E threw \in BOOLEAN :
       IF threw /\ Len(pages) > 1
         THEN /\ pc' = "wfcatch"
              /\ wf' = wf
              /\ UNCHANGED <<pages, page>>
         ELSE /\ pc' = "ret"
              /\ wf' = [wf EXCEPT !.ok = TRUE, !.cause = "success"]
              /\ pages' = PagesAfterClose(pages, page)
              /\ page' = PageAfterClose(pages, page)
  /\ UNCHANGED <<browser, listingUrl>>
  /\ UNCHANGED runVars /\ UNCHANGED journalVars /\ UNCHANGED histVars
  /\ UNCHANGED auxVars

\* Variant: the final record is written whatever the list holds.
AlreadyRecordedNever(fs, title) == FALSE

\* failedSubmissions.some(f => f.jobTitle === jobTitle)
AlreadyRecorded(fs, title) == \E k \in 1..Len(fs) : fs[k].title = title

\* else: record "no success confirmation" unless a record with this title
\* exists, keep the tab open, return false.
FinishFailure ==
  /\ pc = "finish"
  /\ ~wf.submissionSuccessful
  /\ failedSubmissions' =
       IF AlreadyRecorded(failedSubmissions, jobs[wf.job])
         THEN failedSubmissions
         ELSE Append(failedSubmissions, Entry(wf.job, "no_confirmation"))
  /\ passed' = IF AlreadyRecorded(failedSubmissions, jobs[wf.job])
                 THEN passed
                 ELSE SaveFailedSubmissions(passed, failedSubmissions')
  /\ wf' = [wf EXCEPT !.ok = FALSE, !.cause = "unconfirmed"]
  /\ pc' = "ret"
  /\ UNCHANGED failedApplications
  /\ UNCHANGED runVars /\ UNCHANGED pageVars /\ UNCHANGED histVars
  /\ UNCHANGED auxVars

\* The catch block of performJobApplication: journal only if the budget is
\* exceeded, return false.
WorkflowCatch ==
  /\ pc = "wfcatch"
  /\ failedApplications' =
       IF wf.overBudget
         THEN Append(failedApplications,
                     Entry(wf.job, "exceeded30_exception"))
         ELSE failedApplications
  /\ passed' = IF wf.overBudget
                 THEN SaveFailedApplications(passed, failedApplications')
                 ELSE passed
  /\ wf' = [wf EXCEPT !.ok = FALSE, !.cause = "exception"]
  /\ pc' = "ret"
  /\ UNCHANGED failedSubmissions
  /\ UNCHANGED runVars /\ UNCHANGED pageVars /\ UNCHANGED histVars
  /\ UNCHANGED auxVars

\* Variant: the sleep follows every application.
DelayAfterEvery(k, length) == TRUE

\* if (jobsToApply.indexOf(job) < jobsToApply.length - 1), for the k-th job
\* of the list: the handles are distinct objects, so indexOf gives k - 1.
DelayAfter(k, length) == k - 1 < length - 1

\* applyToJob has returned: count a success, then sleep unless this was the
\* last job of jobsToApply.
ReturnToLoop ==
  /\ pc = "ret"
  /\ successCount' = IF wf.ok THEN successCount + 1 ELSE successCount
  /\ inflight' = inflight \ {wf.job}
  /\ log' = Append(log, [ev |-> "end", job |-> wf.job, ok |-> wf.ok,
                         cause |-> wf.cause])
  /\ wf' = NoWf
  /\ pc' = IF DelayAfter(wf.job, Len(jobsToApply)) THEN "delay" ELSE "loop"
  /\ UNCHANGED <<hasSavedContext, jobs, maxJobs, jobsToApply, idx, jobsFound,
                 jobsApplied, delays, allFailedJobs, pending, result>>
  /\ UNCHANGED journalVars /\ UNCHANGED pageVars
  /\ UNCHANGED auxVars

\* await this.sleep(delay)
Delay ==
  /\ pc = "delay"
  /\ delays' = delays + 1
  /\ pc' = "loop"
  /\ UNCHANGED <<hasSavedContext, jobs, maxJobs, jobsToApply, idx,
                 successCount, jobsFound, jobsApplied, allFailedJobs, pending,
                 result, wf>>
  /\ UNCHANGED journalVars /\ UNCHANGED pageVars /\ UNCHANGED histVars
  /\ UNCHANGED auxVars

\* After the loop: jobsApplied, the flush, the collection of allFailedJobs.
FlushAndCollect ==
  /\ pc = "loop"
  /\ idx >= Len(jobsToApply)
  /\ jobsApplied' = successCount
  /\ passed' = FlushBoth(passed, failedSubmissions, failedApplications)
  /\ allFailedJobs' = failedSubmissions \o failedApplications
  /\ pending' = "return"
  /\ pc' = "finally"
  /\ UNCHANGED <<hasSavedContext, jobs, maxJobs, jobsToApply, idx,
                 successCount, jobsFound, delays, result, wf>>
  /\ UNCHANGED <<failedSubmissions, failedApplications>>
  /\ UNCHANGED pageVars /\ UNCHANGED histVars
  /\ UNCHANGED auxVars

\* catch (error): flush, collect, throw error.
CatchFatal ==
  /\ pc = "catch"
  /\ passed' = FlushBoth(passed, failedSubmissions, failedApplications)
  /\ allFailedJobs' = failedSubmissions \o failedApplications
  /\ pending' = "throw"
  /\ pc' = "finally"
  /\ UNCHANGED <<hasSavedContext, jobs, maxJobs, jobsToApply, idx,
                 successCount, jobsFound, jobsApplied, delays, result, wf>>
  /\ UNCHANGED <<failedSubmissions, failedApplications>>
  /\ UNCHANGED pageVars /\ UNCHANGED histVars
  /\ UNCHANGED auxVars

\* Variant: no matching job is an error, as no session is.
NoJobsResultThrown == [NoResult EXCEPT !.kind = "thrown"]

\* return { jobsFound: 0, jobsApplied: 0, jobsFailed: 0, failedJobs: [] }
NoJobsResult ==
  [kind |-> "returned", jobsFound |-> 0, jobsApplied |-> 0, jobsFailed |-> 0,
   failedJobs |-> <<>>]

\* The value runWithStats completes with once finally has run.
Completion ==
  IF pending = "throw"
    THEN [NoResult EXCEPT !.kind = "thrown"]
  ELSE IF pending = "returnEmpty"
    THEN NoJobsResult
  ELSE [kind |-> "returned", jobsFound |-> jobsFound,
        jobsApplied |-> jobsApplied, jobsFailed |-> Len(allFailedJobs),
        failedJobs |-> allFailedJobs]

\* finally { await this.close() } and the completion of runWithStats.
FinallyClose ==
  /\ pc = "finally"
  /\ browser' = IF browser = "null" THEN "null" ELSE "closed"
  /\ result' = Completion
  /\ pc' = "done"
  /\ UNCHANGED <<hasSavedContext, jobs, maxJobs, jobsToApply, idx,
                 successCount, jobsFound, jobsApplied, delays, allFailedJobs,
                 pending, wf>>
  /\ UNCHANGED <<page, pages, listingUrl>>
  /\ UNCHANGED journalVars /\ UNCHANGED histVars
  /\ UNCHANGED auxVars

Next ==
  \/ InitializeBrowser
  \/ VerifySession
  \/ SearchJobs
  \/ StartApply
  \/ OpenJob
  \/ AutofillAttempt
  \/ ApplyNotFound
  \/ ApplyFound
  \/ SubmitNotFound
  \/ SubmitClick
  \/ ConfirmWait
  \/ FinishSuccess
  \/ FinishFailure
  \/ WorkflowCatch
  \/ ReturnToLoop
  \/ Delay
  \/ FlushAndCollect
  \/ CatchFatal
  \/ FinallyClose

Spec == Init /\ [][Next]_vars

\* The event loop runs the single thread of control whenever it can go on.
FairSpec == Spec /\ WF_vars(Next)

\* ================================================================= claims
Journal == failedSubmissions \o failedApplications

Journaled(j, reasons) ==
  \E k \in 1..Len(Journal) : Journal[k].job = j /\ Journal[k].reason \in reasons

AllReasons ==
  {"exceeded30_before_apply", "exceeded30_apply_not_found",
   "exceeded30_after_apply", "exceeded30_after_form", "exceeded30_exception",
   "submission_timeout", "error_messages", "no_confirmation"}

Started(j) == \E k \in 1..Len(log) : log[k].ev = "start" /\ log[k].job = j

Ended(j, ok, cause) ==
  \E k \in 1..Len(log) :
    log[k] = [ev |-> "end", job |-> j, ok |-> ok, cause |-> cause]

NumAttempts == Len(SelectSeq(log, LAMBDA e : e.ev = "start"))

PassedSet == {passed[k] : k \in 1..Len(passed)}

\* C1: a workflow that returns false to the loop has left a journal record
\* with a reason for its job, whatever stage it failed in.
C1_FailedJobIsJournaled ==
  (pc = "ret" /\ ~wf.ok) => Journaled(wf.job, AllReasons)

\* C2: scenario B.  Three jobs found and all three attempted, the apply
\* button missing on job 2 only, jobs 1 and 3 successful: the run returns
\* found 3, applied 2, failed 1 and a failure list of one record, for job 2,
\* whose reason names the missing apply button.
ScenarioB ==
  /\ pc = "done"
  /\ Len(jobs) = 3
  /\ Ended(1, TRUE, "success")
  /\ Ended(2, FALSE, "noApply")
  /\ Ended(3, TRUE, "success")

C2_ScenarioBStatistics ==
  ScenarioB =>
    /\ result.kind = "returned"
    /\ result.jobsFound = 3
    /\ result.jobsApplied = 2
    /\ result.jobsFailed = 1
    /\ Len(result.failedJobs) = 1
    /\ result.failedJobs[1].job = 2
    /\ result.failedJobs[1].reason = "exceeded30_apply_not_found"

\* C3: scenario C.  When the submit button was clicked and the 60 s wait
\* ended with no success indicator, the workflow returns with a record for
\* this job in the journal that tells of the missing confirmation.
C3_ConfirmationTimeoutJournaled ==
  (pc = "ret" /\ wf.submitActivated /\ wf.confirm = "timeout") =>
    /\ ~wf.ok
    /\ Journaled(wf.job, {"submission_timeout", "no_confirmation"})

\* C4: when the run has ended, by return or by rethrow, every record of the
\* in-memory journal has been handed to storage.saveBatch.
C4_JournalPassedToSink ==
  pc = "done" =>
    /\ \A k \in 1..Len(failedSubmissions) :
         Typed(failedSubmissions[k], "submission") \in PassedSet
    /\ \A k \in 1..Len(failedApplications) :
         Typed(failedApplications[k], "application") \in PassedSet

C4_Witness ==
  /\ pc = "done"
  /\ Len(failedSubmissions) > 0
  /\ Len(failedApplications) > 0

\* C5: scenario D.  Without a persisted session the run ends before any
\* discovery or application and returns found 0, applied 0, failed 0.
C5_NoSessionReturnsZeroStats ==
  (pc = "done" /\ ~hasSavedContext) =>
    /\ Len(log) = 0
    /\ Len(jobs) = 0
    /\ result = [NoResult EXCEPT !.kind = "returned"]

\* C6: every run ends by returning the counts and the whole failure list,
\* never by raising an error in place of the result.
C6_RunAlwaysReturnsStats ==
  pc = "done" =>
    /\ result.kind = "returned"
    /\ result.failedJobs = Journal
    /\ result.jobsFailed = Len(Journal)

\* C7: once the jobs to apply are chosen, each of them (the first
\* min(found, maximum) jobs) is eventually attempted, whatever failures the
\* earlier ones meet.
C7_EveryChosenJobAttempted ==
  \A j \in 1..MaxJobs : (j <= Len(jobsToApply)) ~> Started(j)

\* Safety companion of C7: the run never leaves the loop, by return or by
\* throw, with a chosen job unattempted, and never stops before it is done.
C7_NoChosenJobSkipped ==
  /\ pc \in {"catch", "finally", "done"} =>
       \A j \in 1..Len(jobsToApply) : Started(j)
  /\ pc # "done" => ENABLED Next

C7_Witness ==
  \E i \in 1..MaxJobs : \E j \in 1..MaxJobs :
    /\ i < j
    /\ Ended(i, FALSE, "exception")
    /\ Started(j)

\* C8: the number of applyToJob invocations of a run never exceeds the
\* configured maximum.
C8_AttemptsWithinMaximum == NumAttempts <= maxJobs

C8_Witness ==
  /\ pc = "done"
  /\ maxJobs > 0
  /\ Len(jobs) > maxJobs
  /\ NumAttempts = maxJobs

\* C9: the history of attempts is start 1, end 1, start 2, end 2, ...: jobs
\* are attempted in discovery order, each attempt ends before the next one
\* starts, and no job is attempted twice.
C9_DiscoveryOrder ==
  \A k \in 1..Len(log) :
    /\ log[k].job = (k + 1) \div 2
    /\ log[k].ev = IF k % 2 = 1 THEN "start" ELSE "end"

C9_Witness == pc = "done" /\ Len(log) >= 6

\* C10: at most one applyToJob is in flight at any time.
C10_OneWorkflowInFlight == Cardinality(inflight) <= 1

C10_Witness == Cardinality(inflight) = 1 /\ Len(log) >= 3

BudgetReasons ==
  {"exceeded30_before_apply", "exceeded30_apply_not_found",
   "exceeded30_after_apply", "exceeded30_after_form", "exceeded30_exception"}

\* C11: a workflow whose 30 s budget ran out before the submit button was
\* clicked (during the autofill attempt, the apply step or form filling)
\* returns without having clicked submit and with an exceeded-30-seconds
\* record for its job.
C11_BudgetBoundsPathToSubmit ==
  (pc = "ret" /\ wf.lateBeforeSubmit) =>
    /\ ~wf.submitActivated
    /\ Journaled(wf.job, BudgetReasons)

\* C12: when the 60 s confirmation wait ended with no success indicator, the
\* workflow has made exactly one resubmission attempt before it goes on to
\* record the failure.
C12_OneRetryAfterTimeout ==
  (pc = "finish" /\ wf.confirm = "timeout") => wf.retries = 1

\* C14: initializeBrowser returns normally only with a restored page whose
\* session the probe accepted; with a rejected session (page, context and
\* browser closed and cleared) it throws.
C14_InvalidSessionThrows ==
  pc = "verify" => (page # NoPage /\ browser = "open")

\* ------------------------------------------------------------ loadAllJobs
\* The main variables stand still in the specifications of the parts.
mainVars == <<pc, hasSavedContext, browser, page, pages, listingUrl, jobs,
              maxJobs, jobsToApply, idx, successCount, jobsFound, jobsApplied,
              failedSubmissions, failedApplications, passed, wf, inflight,
              log, delays, allFailedJobs, pending, result>>

PartInit == Init /\ hasSavedContext = FALSE

\* What the actions of one part leave alone.
exceptLa == <<mainVars, ff, lg, sj, st, cs, rn, pg>>
exceptFf == <<mainVars, la, lg, sj, st, cs, rn, pg>>
exceptLg == <<mainVars, la, ff, sj, st, cs, rn, pg>>
exceptSj == <<mainVars, la, ff, lg, st, cs, rn, pg>>
exceptSt == <<mainVars, la, ff, lg, sj, cs, rn, pg>>
exceptCs == <<mainVars, la, ff, lg, sj, st, pg, rn>>
exceptRn == <<mainVars, la, ff, lg, sj, st, cs, pg>>
exceptPg == <<mainVars, la, ff, lg, sj, st, cs, rn>>

\* while (attempts <= maxAttempts)
LoopGoesOnInclusive(attempts) == attempts <= maxAttempts

\* while (attempts < maxAttempts)
LoopGoesOn(attempts) == attempts < maxAttempts

\* loadMoreJobs(): true after a click on a visible more-jobs control;
\* otherwise scroll, wait, and report whether any job link is on the page;
\* false on an automation error.
LoadMoreResult(clicked, threw, newJobs) ==
  IF clicked THEN TRUE
  ELSE IF threw THEN FALSE
  ELSE newJobs > 0

\* if (!this.page) return; previousJobCount = 0; attempts = 0
LoadStart ==
  /\ la.pc = "idle"
  /\ \E hasPage \in BOOLEAN :
       la' = [NoLa EXCEPT !.pc = IF hasPage THEN "head" ELSE "done"]
  /\ UNCHANGED exceptLa

\* Loop head: count the job elements; break if the count equals the previous
\* one and the previous one is positive; else remember it.
LoadCount ==
  /\ la.pc = "head"
  /\ LoopGoesOn(la.attempts)
  /\ \E c \in 0..MaxCount :
       LET brk == c = la.previousJobCount /\ la.previousJobCount > 0 IN
       la' = [la EXCEPT
                !.currentJobCount = c,
                !.previousJobCount = IF brk THEN @ ELSE c,
                !.lastCount = c,
                !.stable = @ \/ (c = la.lastCount),
                !.pc = IF brk THEN "done" ELSE "more"]
  /\ UNCHANGED exceptLa

\* const hasMore = await this.loadMoreJobs(); attempts++ when it has more.
LoadMoreJobs ==
  /\ la.pc = "more"
  /\ \E clicked \in BOOLEAN : \E threw \in BOOLEAN :
     \E newJobs \in 0..MaxCount :
       LET hasMore == LoadMoreResult(clicked, threw, newJobs) IN
       la' = [la EXCEPT
                !.calls = @ + 1,
                !.afterStable = IF la.stable THEN @ + 1 ELSE @,
                !.attempts = IF hasMore THEN @ + 1 ELSE @,
                !.pc = IF hasMore THEN "head" ELSE "final"]
  /\ UNCHANGED exceptLa

\* if (!hasMore): wait, count again, break if the count has not changed.
LoadFinalCheck ==
  /\ la.pc = "final"
  /\ \E f \in 0..MaxCount :
       la' = IF f = la.currentJobCount
               THEN [la EXCEPT !.pc = "done"]
               ELSE [la EXCEPT !.attempts = @ + 1, !.pc = "head"]
  /\ UNCHANGED exceptLa

\* The loop condition fails: "Reached maximum attempts".
LoadExhausted ==
  /\ la.pc = "head"
  /\ ~LoopGoesOn(la.attempts)
  /\ la' = [la EXCEPT !.pc = "done"]
  /\ UNCHANGED exceptLa

LoadNext ==
  \/ LoadStart
  \/ LoadCount
  \/ LoadMoreJobs
  \/ LoadFinalCheck
  \/ LoadExhausted

LoadSpec == PartInit /\ [][LoadNext]_vars

\* Every await of loadAllJobs completes.
LoadFairSpec == LoadSpec /\ WF_vars(LoadNext)

\* C15: loadAllJobs never issues more than 50 load-more actions and always
\* ends, whatever counts the page shows and whatever loadMoreJobs returns.
C15_LoadAllJobsTerminates ==
  /\ [](la.calls <= maxAttempts)
  /\ <>(la.pc = "done")

C15_Witness == la.pc = "done" /\ la.calls = maxAttempts

\* C16: once two consecutive counts at the loop head are equal, whatever the
\* count, zero included, loadAllJobs issues no further load-more action.
C16_StopsWhenCountStable == la.afterStable = 0

\* ------------------------------------------------- the earlier index.ts run
\* run() of the earlier index.ts, which still has the login flow: the
\* session is restored if it can be, probed, and login() is called when the
\* probe fails.

\* mutation: the login flow is started whatever the probe said
NeedsLoginAlways(valid) == TRUE

\* const needsLogin = !(await this.verifySession())
NeedsLogin(valid) == ~valid

\* close(): if (this.browser) await this.browser.close()
LegacyClose(l) ==
  [l EXCEPT !.browser = IF @ = "null" THEN "null" ELSE "closed",
            !.closes = @ + 1]

\* The guard on config.personalInfo.email, before the try block.
LegacyStart ==
  /\ lg.pc = "idle"
  /\ \E hasEmail \in BOOLEAN :
       lg' = [lg EXCEPT !.pc = IF hasEmail THEN "init" ELSE "done"]
  /\ UNCHANGED exceptLg

\* initializeBrowser(): restore and probe the saved session; return with it
\* if the probe accepts it; otherwise (no file, restore error, probe
\* rejected) go on to a new browser, context and page.  Never calls login().
LegacyInitializeBrowser ==
  /\ lg.pc = "init"
  /\ \E saved \in BOOLEAN : \E restore \in {"valid", "invalid", "error"} :
     \E launchThrows \in BOOLEAN :
       IF saved /\ restore = "valid"
         THEN lg' = [lg EXCEPT !.browser = "open", !.page = "restored",
                               !.initProbe = "valid", !.lastProbe = "valid",
                               !.pc = "probe"]
         ELSE LET probed == saved /\ restore = "invalid"
                  res == IF probed THEN "invalid" ELSE "none"
              IN IF launchThrows
                   THEN lg' = [lg EXCEPT
                                 !.browser = IF probed THEN "open" ELSE "null",
                                 !.initProbe = res, !.lastProbe = res,
                                 !.pc = "catch"]
                   ELSE lg' = [lg EXCEPT
                                 !.browser = "open", !.page = "fresh",
                                 !.initProbe = res, !.lastProbe = res,
                                 !.pc = "probe"]
  /\ UNCHANGED exceptLg

\* const needsLogin = !(await this.verifySession()); if (needsLogin) ...
LegacyVerifySession ==
  /\ lg.pc = "probe"
  /\ \E valid \in BOOLEAN :
       lg' = [lg EXCEPT !.lastProbe = IF valid THEN "valid" ELSE "invalid",
                        !.pc = IF NeedsLogin(valid) THEN "login"
                                                    ELSE "search"]
  /\ UNCHANGED exceptLg

\* const loggedIn = await this.login(); if (!loggedIn) { close; return }
LegacyLogin ==
  /\ lg.pc = "login"
  /\ \E out \in {"ok", "failed", "threw"} :
       LET l == [lg EXCEPT !.loginCalls = @ + 1] IN
       lg' = IF out = "ok" THEN [l EXCEPT !.pc = "search"]
             ELSE IF out = "threw" THEN [l EXCEPT !.pc = "catch"]
             ELSE [LegacyClose(l) EXCEPT !.pc = "finally"]
  /\ UNCHANGED exceptLg

\* searchJobs(); no jobs: close and return; jobs.slice(0, maxJobs)
LegacySearchJobs ==
  /\ lg.pc = "search"
  /\ \/ lg' = [lg EXCEPT !.pc = "catch"]
     \/ \E n \in 0..MaxJobs : \E m \in 0..MaxCfg :
          lg' = IF n = 0
                  THEN [LegacyClose(lg) EXCEPT !.pc = "finally"]
                  ELSE [lg EXCEPT !.toApply = Min(n, m), !.pc = "loop"]
  /\ UNCHANGED exceptLg

\* for (const job of jobsToApply) { success = await this.applyToJob(job)
LegacyApply ==
  /\ lg.pc = "loop"
  /\ lg.idx < lg.toApply
  /\ \E out \in {"ok", "failed", "threw"} :
       lg' = IF out = "threw"
               THEN [lg EXCEPT !.idx = @ + 1, !.pc = "catch"]
               ELSE [lg EXCEPT
                       !.idx = @ + 1,
                       !.successCount = IF out = "ok" THEN @ + 1 ELSE @,
                       !.pc = IF lg.idx + 1 < lg.toApply THEN "sleep"
                                                         ELSE "loop"]
  /\ UNCHANGED exceptLg

\* await this.sleep(delay) between applications
LegacySleep ==
  /\ lg.pc = "sleep"
  /\ lg' = [lg EXCEPT !.pc = "loop"]
  /\ UNCHANGED exceptLg

\* After the loop: summary, 10 s sleep, flush of failed submissions.
LegacyAfterLoop ==
  /\ lg.pc = "loop"
  /\ lg.idx = lg.toApply
  /\ lg' = [lg EXCEPT !.pc = "finally"]
  /\ UNCHANGED exceptLg

\* catch (error): log, flush.
LegacyCatch ==
  /\ lg.pc = "catch"
  /\ lg' = [lg EXCEPT !.pc = "finally"]
  /\ UNCHANGED exceptLg

\* finally { await this.close() }
LegacyFinally ==
  /\ lg.pc = "finally"
  /\ lg' = [LegacyClose(lg) EXCEPT !.pc = "done"]
  /\ UNCHANGED exceptLg

LegacyNext ==
  \/ LegacyStart
  \/ LegacyInitializeBrowser
  \/ LegacyVerifySession
  \/ LegacyLogin
  \/ LegacySearchJobs
  \/ LegacyApply
  \/ LegacySleep
  \/ LegacyAfterLoop
  \/ LegacyCatch
  \/ LegacyFinally

LegacySpec == PartInit /\ [][LegacyNext]_vars

Pad(n) == [k \in 1..n |-> "a"]

MinOf(S) == CHOOSE x \in S : \A y \in S : x <= y

\* String.prototype.toLowerCase and the i flag, on the letters used here
Lower(c) ==
  IF c = "U" THEN "u" ELSE IF c = "I" THEN "i"
  ELSE IF c = "Y" THEN "y" ELSE IF c = "N" THEN "n" ELSE c

ToLower(s) == [k \in 1..Len(s) |-> Lower(s[k])]

\* String.prototype.trim
Trim(s) ==
  LET keep == {k \in 1..Len(s) : s[k] # " "} IN
  IF keep = {} THEN <<>> ELSE SubSeq(s, MinOf(keep), MaxOf(keep))

\* RegExp.prototype.test for a pattern that is a plain phrase
Contains(s, p) ==
  \E k \in 1..(Len(s) - Len(p) + 1) : SubSeq(s, k, k + Len(p) - 1) = p

StartsWith(s, p) == Len(s) >= Len(p) /\ SubSeq(s, 1, Len(p)) = p

NotSure == <<"N", "o", "t", " ", "s", "u", "r", "e">>
NotAvailable ==
  <<"N", "o", "t", " ", "a", "v", "a", "i", "l", "a", "b", "l", "e">>
Ellipsis == <<".", ".", ".">>

uncertainPhrases ==
  {<<"i", "'", "m", " ", "n", "o", "t", " ", "s", "u", "r", "e">>,
   <<"i", " ", "d", "o", "n", "'", "t", " ", "k", "n", "o", "w">>,
   <<"i", " ", "c", "a", "n", "n", "o", "t">>,
   <<"i", "'", "m", " ", "u", "n", "a", "b", "l", "e">>,
   <<"i", " ", "d", "o", "n", "'", "t", " ", "h", "a", "v", "e">>,
   <<"u", "n", "c", "l", "e", "a", "r">>,
   <<"u", "n", "c", "e", "r", "t", "a", "i", "n">>,
   <<"n", "o", "t", " ", "c", "e", "r", "t", "a", "i", "n">>,
   <<"c", "a", "n", "n", "o", "t", " ", "d", "e", "t", "e", "r", "m", "i",
    "n", "e">>,
   <<"u", "n", "a", "b", "l", "e", " ", "t", "o">>,
   <<"i", "'", "m", " ", "n", "o", "t", " ", "c", "e", "r", "t", "a", "i",
    "n">>,
   <<"i", "'", "m", " ", "u", "n", "s", "u", "r", "e">>,
   <<"i", " ", "d", "o", "n", "'", "t", " ", "h", "a", "v", "e", " ", "e",
    "n", "o", "u", "g", "h">>,
   <<"i", "n", "s", "u", "f", "f", "i", "c", "i", "e", "n", "t", " ", "i",
    "n", "f", "o", "r", "m", "a", "t", "i", "o", "n">>,
   <<"n", "o", "t", " ", "e", "n", "o", "u", "g", "h", " ", "i", "n", "f",
    "o", "r", "m", "a", "t", "i", "o", "n">>}

IsUncertain(answer) ==
  \E phrase \in uncertainPhrases : Contains(ToLower(answer), phrase)

\* What the completion call gave: an error, or a response with its content.
OracleError == [kind |-> "error", content |-> <<>>]
OracleResponse(content) == [kind |-> "response", content |-> content]

\* generateAnswer(question, fieldType)
GenerateAnswer(configured, question, outcome) ==
  IF ~configured THEN <<>>
  ELSE IF outcome.kind = "error" THEN NotAvailable
  ELSE
    LET trimmed == Trim(outcome.content)
        answer == IF Len(trimmed) > MaxAnswerLength
                    THEN SubSeq(trimmed, 1, TruncatedLength) \o Ellipsis
                    ELSE trimmed
    IN IF answer = <<>> THEN NotAvailable
       ELSE IF IsUncertain(answer) THEN NotSure
       ELSE IF \/ Len(answer) < MinAnswerLength
               \/ ToLower(answer) =
                    SubSeq(ToLower(question), 1,
                           Min(Len(answer), Len(question)))
         THEN NotAvailable
       ELSE answer

\* A question is its label text and the rule categories whose pattern the
\* label matches ("uk" marks a visa question that mentions the UK).
Categories == {"gender", "location", "visa", "uk", "former", "remote"}

NoMatch == "<null>"

\* options.find(opt => ...): the first option with the wanted text
FindOption(options, text) ==
  LET hit == {k \in 1..Len(options) : options[k] = text} IN
  IF hit = {} THEN NoMatch ELSE options[MinOf(hit)]

\* getBasicDropdownAnswer(question, options): the rules in order, each one
\* falling through to the next when its option is not among the options.
GetBasicDropdownAnswer(cats, options) ==
  LET male == FindOption(options, "male")
      uk == FindOption(options, "uk")
      no == FindOption(options, "no")
      yes == FindOption(options, "yes")
  IN IF "gender" \in cats /\ male # NoMatch THEN male
     ELSE IF "location" \in cats /\ uk # NoMatch THEN uk
     ELSE IF "visa" \in cats /\ "uk" \in cats /\ no # NoMatch THEN no
     ELSE IF "visa" \in cats /\ "uk" \notin cats /\ yes # NoMatch THEN yes
     ELSE IF "former" \in cats /\ no # NoMatch THEN no
     ELSE IF "remote" \in cats /\ yes # NoMatch THEN yes
     ELSE NoMatch

\* \b after the first character: end of text or a non-word character
WordEndsAfterFirst(s) == Len(s) = 1 \/ s[2] \in {" ", ".", ",", "!"}

\* Variant: an unclear response counts as yes.
GenerateYesNoAnswerUnclearYes(configured, outcome) ==
  IF ~configured THEN "no"
  ELSE IF outcome.kind = "error" THEN "no"
  ELSE
    LET answer == ToLower(Trim(outcome.content)) IN
    IF \/ StartsWith(answer, <<"n", "o">>)
       \/ (StartsWith(answer, <<"n">>) /\ WordEndsAfterFirst(answer))
      THEN "no"
    ELSE "yes"

\* generateYesNoAnswer(question)
GenerateYesNoAnswer(configured, outcome) ==
  IF ~configured THEN "no"
  ELSE IF outcome.kind = "error" THEN "no"
  ELSE
    LET answer == ToLower(Trim(outcome.content)) IN
    IF \/ StartsWith(answer, <<"y", "e", "s">>)
       \/ (StartsWith(answer, <<"y">>) /\ WordEndsAfterFirst(answer))
      THEN "yes"
    ELSE IF \/ StartsWith(answer, <<"n", "o">>)
            \/ (StartsWith(answer, <<"n">>) /\ WordEndsAfterFirst(answer))
      THEN "no"
    ELSE "no"

\* matchingOption || validOptions[0]
OptionForAnswer(options, aiAnswer) ==
  IF FindOption(options, aiAnswer) # NoMatch
    THEN FindOption(options, aiAnswer)
    ELSE options[1]

\* ------------------------------------------------- inputs of a form's pass
PadLengths == {0, 9, 12, 193, 205}
TailLengths == {0, 2}
Hedges == {<<>>, <<"u", "n", "c", "l", "e", "a", "r">>,
           <<"I", " ", "c", "a", "n", "n", "o", "t">>}
Spaces == {<<>>, <<" ">>}

TextResponses ==
  {sp \o Pad(pre) \o hedge \o Pad(suf) \o sp :
     pre \in PadLengths, hedge \in Hedges, suf \in TailLengths, sp \in Spaces}

TextOutcomes == {OracleError} \cup {OracleResponse(r) : r \in TextResponses}

YesNoResponses ==
  {<<"y", "e", "s">>, <<"Y", "e", "s", ".">>, <<"y">>, <<"y", "e", "p">>,
   <<"n", "o">>, <<"N", "o", "p", "e">>, <<"n", ".">>, <<"m", "a", "y">>,
   <<>>}

YesNoOutcomes == {OracleError} \cup {OracleResponse(r) : r \in YesNoResponses}

Labels == {Pad(12), <<"w", "h", "y", "?">>}

TextQuestions == {[text |-> t, cats |-> {}] : t \in Labels}

ChoiceQuestions ==
  {[text |-> Pad(12), cats |-> c] :
     c \in {{}, {"gender"}, {"location"}, {"visa"}, {"visa", "uk"},
            {"former"}, {"remote"}, {"visa", "former"}}}

OptionTexts == {"yes", "no", "other", "male", "uk"}

\* validOptions: one or two distinct options, in page order
OptionLists ==
  {<<a>> : a \in OptionTexts} \cup
  {p \in OptionTexts \X OptionTexts : p[1] # p[2]}

\* fieldKey = fieldInfo.name || fieldInfo.id || questionText
FieldKey(name, question) ==
  IF name = "" THEN [name |-> "", label |-> question.text]
               ELSE [name |-> name, label |-> <<>>]

\* ---------------------------------------------------- one pass over a form
\* performJobApplication from fillRequiredTextFields() to the end of the
\* native selects: the text fields first, then the selects.  The page shows
\* the next field when the code reaches it.
FormStart ==
  /\ ff.pc = "idle"
  /\ \E configured \in BOOLEAN :
       ff' = [NoFf EXCEPT !.configured = configured, !.pc = "text"]
  /\ UNCHANGED exceptFf

\* generateAnswer on every input of the model, computed once
AnswerTable ==
  [t \in Labels, o \in TextOutcomes |-> GenerateAnswer(TRUE, t, o)]

NoOutcome == [kind |-> "none", content |-> <<>>]

\* fillRequiredTextFields without an OpenAI client: the early return, with
\* any number of required text fields of the page still empty.
SkipTextFields ==
  /\ ff.pc = "text"
  /\ ~ff.configured
  /\ \E empty \in 0..MaxFields :
       ff' = [ff EXCEPT !.pc = "choice", !.unasked = empty]
  /\ UNCHANGED exceptFf

\* One required text field of fillRequiredTextFields.
FillTextField ==
  /\ ff.pc = "text"
  /\ ff.configured
  /\ ff.n < MaxFields
  /\ \E question \in TextQuestions : \E name \in {"", "k1", "k2"} :
     \E prefilled \in BOOLEAN :
       LET key == FieldKey(name, question)
           skip == prefilled \/ key \in ff.filledFields
       IN
       \E outcome \in IF skip THEN {NoOutcome} ELSE TextOutcomes :
       \E fillThrows \in IF skip THEN {FALSE} ELSE BOOLEAN :
         LET answer == IF skip THEN <<>>
                       ELSE AnswerTable[question.text, outcome]
             fills == ~skip /\ answer # <<>> /\ ~fillThrows
         IN ff' = [ff EXCEPT
                     !.n = @ + 1,
                     !.filledFields = IF fills THEN @ \cup {key} ELSE @,
                     !.calls = IF skip THEN @ ELSE Append(@, question),
                     !.unasked = IF skip /\ ~prefilled THEN @ + 1 ELSE @,
                     !.last = [NoLast EXCEPT
                                 !.kind = "text",
                                 !.question = question,
                                 !.called = ~skip,
                                 !.outcome = outcome,
                                 !.returned = answer,
                                 !.written = IF fills THEN answer ELSE <<>>]]
  /\ UNCHANGED exceptFf

\* fillRequiredTextFields returns; its filledFields list is gone.
TextFieldsDone ==
  /\ ff.pc = "text"
  /\ ff.configured
  /\ ff' = [ff EXCEPT !.pc = "choice", !.filledFields = {},
                      !.last = NoLast]
  /\ UNCHANGED exceptFf

\* Why the loop over the native selects leaves a select alone, by the first
\* test that holds: the label is an identity word, the id or name starts with
\* one, label, id or name holds a country word, or the select has a value
\* that is no placeholder.
Exemptions == {"commonLabel", "commonId", "country", "filled"}

\* One native select: skipped when common, country or already filled;
\* otherwise the rules first and generateYesNoAnswer when they give null.
ResolveChoice ==
  /\ ff.pc = "choice"
  /\ ff.n < MaxFields
  /\ \E question \in ChoiceQuestions : \E why \in Exemptions \cup {"none"} :
     LET skip == why \in Exemptions IN
     \E options \in IF skip THEN {<<"other">>} ELSE OptionLists :
       LET basic == GetBasicDropdownAnswer(question.cats, options)
           usedAI == ~skip /\ basic = NoMatch
           called == usedAI /\ ff.configured
       IN
       \E outcome \in IF called THEN YesNoOutcomes ELSE {NoOutcome} :
         LET aiAnswer == GenerateYesNoAnswer(ff.configured, outcome) IN
         ff' = [ff EXCEPT
                  !.n = @ + 1,
                  !.calls = IF called THEN Append(@, question) ELSE @,
                  !.exempted = IF skip THEN @ \cup {why} ELSE @,
                  !.last = [NoLast EXCEPT
                              !.kind = "choice",
                              !.question = question,
                              !.called = called,
                              !.outcome = outcome,
                              !.exempt = skip,
                              !.consulted = ~skip,
                              !.basic = IF skip THEN "" ELSE basic,
                              !.aiAnswer = IF usedAI THEN aiAnswer ELSE "",
                              !.selected =
                                 IF skip THEN ""
                                 ELSE IF usedAI
                                   THEN OptionForAnswer(options, aiAnswer)
                                 ELSE basic]]
  /\ UNCHANGED exceptFf

\* The loop over the native selects has ended.
ChoicesDone ==
  /\ ff.pc = "choice"
  /\ ff' = [ff EXCEPT !.pc = "labels", !.last = NoLast]
  /\ UNCHANGED exceptFf

\* The second test for dropdowns, on the element a required label points
\* to.  It looks at the label only for identity words, and takes the text of
\* the element for its value: for a native select that is the text of all
\* its options, the placeholder option included.
SkipsTrigger(target, hasSelectWord) ==
  target \in {"commonLabel", "country"} \/ ~hasSelectWord

\* One required label (text with an asterisk) and the element its for
\* attribute names: a custom dropdown, or one of the native selects that the
\* first loop left alone.  The options are whatever option-like elements
\* the page holds once the element was clicked; the click on one of them
\* does not set a native select.
ResolveRequiredLabel ==
  /\ ff.pc = "labels"
  /\ ff.n < MaxFields
  /\ \E question \in ChoiceQuestions :
     \E target \in ff.exempted \cup {"custom"} :
     \E hasSelectWord \in BOOLEAN : \E optionsFound \in BOOLEAN :
     LET skip == SkipsTrigger(target, hasSelectWord) \/ ~optionsFound IN
     \E options \in IF skip THEN {<<"other">>} ELSE OptionLists :
       LET basic == GetBasicDropdownAnswer(question.cats, options)
           usedAI == ~skip /\ basic = NoMatch
           called == usedAI /\ ff.configured
       IN
       \E outcome \in IF called THEN YesNoOutcomes ELSE {NoOutcome} :
         ff' = [ff EXCEPT
                  !.n = @ + 1,
                  !.calls = IF called THEN Append(@, question) ELSE @,
                  !.last = [NoLast EXCEPT
                              !.kind = "label",
                              !.question = question,
                              !.called = called,
                              !.outcome = outcome,
                              !.exempt = target \in Exemptions,
                              !.consulted = ~skip,
                              !.basic = IF skip THEN "" ELSE basic,
                              !.aiAnswer =
                                 IF usedAI
                                   THEN GenerateYesNoAnswer(ff.configured,
                                                            outcome)
                                 ELSE ""]]
  /\ UNCHANGED exceptFf

\* The dropdowns are done; the workflow goes on to the submit button.
FormDone ==
  /\ ff.pc = "labels"
  /\ ff' = [ff EXCEPT !.pc = "done"]
  /\ UNCHANGED exceptFf

FormNext ==
  \/ FormStart
  \/ SkipTextFields
  \/ FillTextField
  \/ TextFieldsDone
  \/ ResolveChoice
  \/ ChoicesDone
  \/ ResolveRequiredLabel
  \/ FormDone

FormSpec == PartInit /\ [][FormNext]_vars

RuleCategories == {"visa", "former", "remote"}

\* C17: for a select whose question is in the visa, prior-employment or
\* remote-work category the choice comes from the rules and no oracle call is
\* made; generateYesNoAnswer reaches the oracle only for other questions.
C17_RuleCategoriesNeedNoOracle ==
  (ff.last.kind = "choice" /\ ff.last.question.cats \cap RuleCategories # {})
    => ~ff.last.called

\* An oracle response that generateAnswer has to replace: empty, holding an
\* uncertainty phrase, or shorter than 10 characters.
Unacceptable(content) ==
  LET t == Trim(content) IN
  t = <<>> \/ IsUncertain(t) \/ Len(t) < MinAnswerLength

\* C18: every oracle error and every oracle response that is empty, holds an
\* uncertainty phrase or is shorter than 10 characters comes back from
\* generateAnswer as exactly "Not sure" or "Not available".
C18_UnacceptableResponseReplaced ==
  (/\ ff.last.kind = "text"
   /\ ff.last.called
   /\ \/ ff.last.outcome.kind = "error"
      \/ Unacceptable(ff.last.outcome.content))
    => ff.last.returned \in {NotSure, NotAvailable}

\* C19: in one pass the oracle is asked at most once about any one
\* question: no question occurs twice among the oracle calls.
C19_OneOracleCallPerQuestion ==
  \A i \in 1..Len(ff.calls) : \A j \in 1..Len(ff.calls) :
    i # j => ff.calls[i] # ff.calls[j]

\* C20: a required text field whose completion call raised an error is left
\* empty.
C20_OracleErrorSkipsField ==
  (ff.last.kind = "text" /\ ff.last.outcome.kind = "error")
    => ff.last.written = <<>>

\* C21: when the pass over the form has ended without an error, every
\* required text field that is still empty had either a rule matched or an
\* oracle call made for it, also when no oracle is configured.
C21_EmptyFieldWasAsked ==
  ff.pc = "done" => ff.unasked = 0

\* C22: no job handle is activated after the page it was taken from has
\* navigated away: applyToJob never calls click() on a view button whose
\* listing page no longer shows the search results.
C22_NoStaleHandleClicked ==
  ~wf.staleClick

\* ------------------------------------------------------------- searchJobs
\* One call of searchJobs(shouldNavigate).  The page is a document (doc, a
\* new one after every goto), its URL and the job elements loaded on it;
\* matching[i] tells whether the title of element i matches /engineer/.
Elements(n) == UNION {[1..k -> BOOLEAN] : k \in 0..n}

\* Variant: the page is always loaded anew.
NavigatesAlways(shouldNavigate) == TRUE

\* if (shouldNavigate)
Navigates(shouldNavigate) == shouldNavigate

\* The call starts on whatever page the bot is on.
SearchStart ==
  /\ sj.pc = "idle"
  /\ \E shouldNavigate \in BOOLEAN : \E url \in {"search", "job"} :
     \E matching \in Elements(MaxCount) :
       sj' = [NoSj EXCEPT
                !.pc = IF Navigates(shouldNavigate) THEN "goto" ELSE "wait",
                !.shouldNavigate = shouldNavigate,
                !.url = url,
                !.matching = matching,
                !.before = [doc |-> 0, url |-> url, matching |-> matching]]
  /\ UNCHANGED exceptSj

\* page.goto(searchUrl): a new document with its first job elements; an
\* error of goto leaves searchJobs.
SearchGoto ==
  /\ sj.pc = "goto"
  /\ \E threw \in BOOLEAN : \E matching \in Elements(MaxCount - 1) :
       sj' = IF threw
               THEN [sj EXCEPT !.pc = "threw", !.gotos = @ + 1]
               ELSE [sj EXCEPT !.pc = "loadAll", !.gotos = @ + 1,
                               !.doc = @ + 1, !.url = "search",
                               !.matching = matching]
  /\ UNCHANGED exceptSj

\* await this.loadAllJobs(): more job elements may be added to the page.
SearchLoadAllJobs ==
  /\ sj.pc = "loadAll"
  /\ \E more \in Elements(MaxCount - Len(sj.matching)) :
       sj' = [sj EXCEPT !.pc = "scan", !.loadAllCalls = @ + 1,
                       !.matching = @ \o more]
  /\ UNCHANGED exceptSj

\* else: waitForTimeout(1000) only.
SearchWait ==
  /\ sj.pc = "wait"
  /\ sj' = [sj EXCEPT !.pc = "scan"]
  /\ UNCHANGED exceptSj

\* The handles of the matching elements of the page, in page order.
RECURSIVE Handles(_, _, _)
Handles(doc, matching, i) ==
  IF i > Len(matching) THEN <<>>
  ELSE (IF matching[i] THEN <<[doc |-> doc, index |-> i]>> ELSE <<>>)
       \o Handles(doc, matching, i + 1)

\* The queries for job elements and the filter on the titles; [] on an
\* error of the queries.
SearchScan ==
  /\ sj.pc = "scan"
  /\ \E threw \in BOOLEAN :
       sj' = [sj EXCEPT
                !.pc = "done",
                !.returned = IF threw THEN <<>>
                             ELSE Handles(sj.doc, sj.matching, 1)]
  /\ UNCHANGED exceptSj

SearchNext ==
  \/ SearchStart
  \/ SearchGoto
  \/ SearchLoadAllJobs
  \/ SearchWait
  \/ SearchScan

SearchSpec == PartInit /\ [][SearchNext]_vars

\* C23: searchJobs(false) performs no goto and no loadAllJobs: the
\* document, its URL and the loaded job elements are those of before the
\* call, and every handle returned is of an element of that page.
C23_NoNavigateLeavesPage ==
  (sj.pc # "idle" /\ ~sj.shouldNavigate) =>
    /\ sj.gotos = 0
    /\ sj.loadAllCalls = 0
    /\ sj.doc = sj.before.doc
    /\ sj.url = sj.before.url
    /\ sj.matching = sj.before.matching
    /\ \A k \in 1..Len(sj.returned) :
         /\ sj.returned[k].doc = sj.before.doc
         /\ sj.returned[k].index \in 1..Len(sj.before.matching)

\* searchJobs(false) has returned two handles of the page it was called on.
C23_Witness ==
  /\ sj.pc = "done"
  /\ ~sj.shouldNavigate
  /\ Len(sj.returned) = 2
  /\ sj.gotos = 0

\* ------------------------------------------------------------ failure sink
\* storage.ts: a DynamoDB table when FAILED_JOBS_TABLE_NAME is set, else the
\* files failed-submissions.json and failed-applications.json.  A failed job
\* is its title and its type; a batch is what the bot hands to saveBatch:
\* records of one type.
FailedJobs == [title : 1..2, type : {"submission", "application"}]

Batches ==
  {b \in UNION {[1..k -> FailedJobs] : k \in 0..2} :
     \A i \in 1..Len(b) : b[i].type = b[1].type}

\* Variant: the item is keyed by what it says.
ItemIdByTitle(job, uuid) == <<job.type, job.title>>

\* save(): id = `${job.type}-${randomUUID()}`
ItemId(job, uuid) == <<job.type, uuid>>

\* PutCommand: an item replaces the item of the same id.
Put(table, id, job) ==
  {r \in table : r.id # id} \cup {[id |-> id, job |-> job]}

\* The puts of the jobs of a batch whose index is in saved, each with a
\* UUID of its own.
RECURSIVE PutAll(_, _, _, _, _)
PutAll(table, batch, saved, uuids, i) ==
  IF i > Len(batch) THEN table
  ELSE PutAll(IF i \in saved
                THEN Put(table, ItemId(batch[i], uuids + i), batch[i])
                ELSE table,
              batch, saved, uuids, i + 1)

\* jobs.map(j => ({ ...j, type }))
RECURSIVE Retag(_, _)
Retag(js, type) ==
  IF js = <<>> THEN <<>>
  ELSE <<[Head(js) EXCEPT !.type = type]>> \o Retag(Tail(js), type)

\* The items of a Scan, in the order the table gives them.
RECURSIVE Scan(_)
Scan(table) ==
  IF table = {} THEN <<>>
  ELSE LET r == CHOOSE x \in table : TRUE
       IN <<r.job>> \o Scan(table \ {r})

\* readFromLocalFiles()
ReadFromLocalFiles(submissions, applications) ==
  Retag(submissions, "submission") \o Retag(applications, "application")

StorageStart ==
  /\ st.pc = "idle"
  /\ \E dynamo \in BOOLEAN :
       st' = [NoSt EXCEPT !.pc = "ready", !.dynamo = dynamo]
  /\ UNCHANGED exceptSt

\* saveBatch(jobs).  With a table every job is put on its own and the call
\* fails when a put fails; with files the batch is appended to the file of
\* the first job's type and an error of the file system is only logged.
StorageSaveBatch ==
  /\ st.pc = "ready"
  /\ Len(st.flushed) + st.ioErrors < MaxFlushes
  /\ \E batch \in Batches :
       IF Len(batch) = 0 THEN st' = [st EXCEPT !.got = NoGot]
       ELSE IF st.dynamo
         THEN \E saved \in SUBSET (1..Len(batch)) :
                LET all == saved = 1..Len(batch) IN
                st' = [st EXCEPT
                         !.table = PutAll(@, batch, saved, st.uuids, 1),
                         !.uuids = @ + Len(batch),
                         !.flushed = IF all THEN Append(@, batch) ELSE @,
                         !.ioErrors = IF all THEN @ ELSE @ + 1,
                         !.got = NoGot]
         ELSE \E ioError \in BOOLEAN :
                LET type == batch[1].type
                    sub == type = "submission" /\ ~ioError
                    app == type = "application" /\ ~ioError
                IN st' = [st EXCEPT
                            !.submissions = IF sub THEN @ \o batch ELSE @,
                            !.applications = IF app THEN @ \o batch ELSE @,
                            !.flushed = IF ioError THEN @
                                        ELSE Append(@, batch),
                            !.ioErrors = IF ioError THEN @ + 1 ELSE @,
                            !.got = NoGot]
  /\ UNCHANGED exceptSt

\* getAll()
StorageGetAll ==
  /\ st.pc = "ready"
  /\ ~st.got.read
  /\ st' = [st EXCEPT
              !.got = [read |-> TRUE,
                       jobs |-> IF st.dynamo THEN Scan(st.table)
                                ELSE ReadFromLocalFiles(st.submissions,
                                                        st.applications)]]
  /\ UNCHANGED exceptSt

StorageNext ==
  \/ StorageStart
  \/ StorageSaveBatch
  \/ StorageGetAll

StorageSpec == PartInit /\ [][StorageNext]_vars

\* Number of entries of a sequence equal to x.
Occurrences(seq, x) == Cardinality({i \in 1..Len(seq) : seq[i] = x})

RECURSIVE TimesFlushed(_, _)
TimesFlushed(flushed, x) ==
  IF flushed = <<>> THEN 0
  ELSE Occurrences(Head(flushed), x) + TimesFlushed(Tail(flushed), x)

\* C24: getAll() returns every failed job exactly as often as it was
\* flushed to the sink: a set flushed twice gives two entries per job, none
\* merged away and none counted more often than written.
C24_EntriesAsOftenAsFlushed ==
  (st.got.read /\ st.ioErrors = 0) =>
    \A job \in FailedJobs :
      Occurrences(st.got.jobs, job) = TimesFlushed(st.flushed, job)

\* The same two failed jobs were flushed twice and getAll() has returned
\* four entries, two for each.
C24_Witness ==
  /\ st.got.read
  /\ Len(st.flushed) = 2
  /\ st.flushed[1] = st.flushed[2]
  /\ Len(st.flushed[1]) = 2
  /\ st.flushed[1][1] # st.flushed[1][2]
  /\ Len(st.got.jobs) = 4
  /\ \A i \in 1..2 : Occurrences(st.got.jobs, st.flushed[1][i]) = 2

\* ------------------------------------------------- close and saveSession
\* What the two methods can change: this.browser ("null" or "set"), whether
\* that browser has been closed, whether this.page is set, the session of the
\* browser context (1 or 2) and the session in the .browser-context file
\* (0: no file).  Closing a browser that is closed already does nothing.
\* Variant: close() without the test of this.browser.
HasBrowserAlways(k) == TRUE

\* if (this.browser)
HasBrowser(k) == k.browser # "null"

\* close(): the state it leaves and whether it raised an error
Close(k) ==
  IF ~HasBrowser(k) THEN [kept |-> k, error |-> FALSE]
  ELSE IF k.browser = "null" THEN [kept |-> k, error |-> TRUE]
  ELSE [kept |-> [k EXCEPT !.closed = TRUE], error |-> FALSE]

\* saveSession(): nothing without a page; an error of storageState (always
\* one when the browser is closed) is logged and not raised.
SaveSession(k, storageStateThrows) ==
  IF ~k.page \/ storageStateThrows \/ k.closed
    THEN [kept |-> k, error |-> FALSE]
    ELSE [kept |-> [k EXCEPT !.file = k.session], error |-> FALSE]

\* A bot never initialised (or one whose initializeBrowser gave up) or a
\* bot with a browser and a page.
CloseStart ==
  /\ cs.pc = "idle"
  /\ \E launched \in BOOLEAN : \E session \in 1..2 : \E file \in 0..2 :
       LET k == [browser |-> IF launched THEN "set" ELSE "null",
                 closed |-> FALSE, page |-> launched,
                 session |-> session, file |-> file]
       IN cs' = [NoCs EXCEPT !.pc = "ready", !.kept = k, !.orig = k]
  /\ UNCHANGED exceptCs

\* The bookkeeping of one call: orig is the state before the first of the
\* calls of op in a row, again tells that op was the call before as well.
After(op, out, nextPc) ==
  [cs EXCEPT !.pc = nextPc,
             !.kept = out.kept,
             !.orig = IF cs.lastOp = op THEN @ ELSE cs.kept,
             !.again = cs.lastOp = op,
             !.lastOp = op,
             !.error = out.error,
             !.calls = @ + 1]

\* A caller calls close().
CallClose ==
  /\ cs.pc = "ready"
  /\ cs.calls < MaxCalls
  /\ cs' = After("close", Close(cs.kept), "ready")
  /\ UNCHANGED exceptCs

\* A caller calls saveSession().
CallSaveSession ==
  /\ cs.pc = "ready"
  /\ cs.calls < MaxCalls
  /\ \E storageStateThrows \in BOOLEAN :
       cs' = After("saveSession",
                   SaveSession(cs.kept, storageStateThrows), "ready")
  /\ UNCHANGED exceptCs

\* run() leaves early (no session, or no matching job): await this.close();
\* return.
RunEarlyExit ==
  /\ cs.pc = "ready"
  /\ cs.calls + 1 < MaxCalls
  /\ cs' = After("close", Close(cs.kept), "finally")
  /\ UNCHANGED exceptCs

\* finally { await this.close(); }
RunFinally ==
  /\ cs.pc = "finally"
  /\ cs' = After("close", Close(cs.kept), "ready")
  /\ UNCHANGED exceptCs

CloseNext ==
  \/ CloseStart
  \/ CallClose
  \/ CallSaveSession
  \/ RunEarlyExit
  \/ RunFinally

CloseSpec == PartInit /\ [][CloseNext]_vars

\* ------------------------------------------- the paths of run/runWithStats
\* rn.field is this.browser ("null" or "set"), rn.proc the browser process
\* ("none" before a launch, then "running" or "closed"), rn.closeLast tells
\* that close() was called and no browser operation came after it,
\* rn.tabs counts the job tabs that failed workflows have left open.

\* Variant: only run() closes the browser in its finally block.
ClosesInFinallyOfRun(which) == which = "run"

\* finally { await this.close(); } of run() and of runWithStats()
ClosesInFinally(which) == TRUE

\* close(): if (this.browser) await this.browser.close()
CloseOf(r) ==
  [r EXCEPT !.proc = IF r.field = "set" THEN "closed" ELSE @,
            !.tabs = IF r.field = "set" THEN 0 ELSE @,
            !.closeLast = TRUE]

\* An operation on the page or the browser.
BrowserOp(r) == [r EXCEPT !.closeLast = FALSE]

\* if (this.browser) { await this.browser.close(); this.browser = null }
CloseAndForget(r) ==
  [r EXCEPT !.proc = IF r.field = "set" THEN "closed" ELSE @,
            !.tabs = IF r.field = "set" THEN 0 ELSE @,
            !.field = "null", !.page = FALSE]

PathStart ==
  /\ rn.pc = "idle"
  /\ \E which \in {"run", "runWithStats"} : \E saved \in BOOLEAN :
       rn' = [NoRn EXCEPT !.pc = "init", !.which = which, !.saved = saved]
  /\ UNCHANGED exceptRn

\* initializeBrowser(): no context file; launch fails; a later step of the
\* restore fails; the session is valid; the session is invalid and the
\* closing of page, context and browser goes through or fails.
PathInitializeBrowser ==
  /\ rn.pc = "init"
  /\ IF ~rn.saved
       THEN rn' = [rn EXCEPT !.pc = "catch"]
       ELSE \E probe \in {"launchFails", "restoreFails", "valid", "invalid",
                          "invalidCloseFails"} :
              LET launched == [BrowserOp(rn) EXCEPT !.field = "set",
                                                    !.proc = "running"]
              IN rn' =
                   IF probe = "launchFails"
                     THEN [CloseAndForget(rn) EXCEPT !.pc = "catch"]
                   ELSE IF probe \in {"restoreFails", "invalidCloseFails"}
                     THEN [CloseAndForget(launched) EXCEPT !.pc = "catch"]
                   ELSE IF probe = "invalid"
                     THEN [CloseAndForget(launched) EXCEPT !.pc = "verify"]
                   ELSE [launched EXCEPT !.page = TRUE, !.pc = "verify"]
  /\ UNCHANGED exceptRn

\* verifySession() and what run() and runWithStats() do when it is false:
\* run() calls close() and returns, runWithStats() throws.
PathVerifySession ==
  /\ rn.pc = "verify"
  /\ \E ok \in BOOLEAN :
       LET r == IF rn.page THEN BrowserOp(rn) ELSE rn
       IN rn' =
            IF rn.page /\ ok
              THEN [r EXCEPT !.pc = "search"]
            ELSE IF rn.which = "run"
              THEN [CloseOf(r) EXCEPT !.pc = "finally", !.pending = "return"]
            ELSE [r EXCEPT !.pc = "catch"]
  /\ UNCHANGED exceptRn

\* searchJobs() throws, finds nothing (run() closes and returns,
\* runWithStats() returns) or finds n jobs.
PathSearchJobs ==
  /\ rn.pc = "search"
  /\ \/ rn' = [BrowserOp(rn) EXCEPT !.pc = "catch"]
     \/ \E n \in 0..MaxJobs :
          rn' =
            IF n > 0
              THEN [BrowserOp(rn) EXCEPT !.pc = "loop", !.found = n,
                                         !.left = n]
            ELSE IF rn.which = "run"
              THEN [CloseOf(BrowserOp(rn)) EXCEPT !.pc = "finally",
                                                  !.pending = "return"]
            ELSE [BrowserOp(rn) EXCEPT !.pc = "finally",
                                       !.pending = "return"]
  /\ UNCHANGED exceptRn

\* const success = await this.applyToJob(job); a workflow that fails may
\* leave its tab open ("keeping tab open for manual review").
PathApplyToJob ==
  /\ rn.pc = "loop"
  /\ rn.left > 0
  /\ \E success \in BOOLEAN : \E tabLeft \in BOOLEAN :
       /\ success => ~tabLeft
       /\ rn' = [BrowserOp(rn) EXCEPT
                   !.left = @ - 1,
                   !.tabs = IF tabLeft THEN @ + 1 ELSE @,
                   !.successCount = IF success THEN @ + 1 ELSE @]
  /\ UNCHANGED exceptRn

\* The loop is over: the flush of the two lists (no browser operation) and
\* the end of the try block.
PathLoopDone ==
  /\ rn.pc = "loop"
  /\ rn.left = 0
  /\ rn' = [rn EXCEPT !.pc = "finally", !.pending = "return"]
  /\ UNCHANGED exceptRn

\* catch (error): the lists are flushed; runWithStats() throws the error
\* again, run() goes on.
PathCatch ==
  /\ rn.pc = "catch"
  /\ rn' = [rn EXCEPT !.pc = "finally",
                      !.pending = IF rn.which = "run" THEN "return"
                                  ELSE "throw"]
  /\ UNCHANGED exceptRn

\* finally { await this.close(); } and the completion of the call
PathFinally ==
  /\ rn.pc = "finally"
  /\ rn' = [(IF ClosesInFinally(rn.which) THEN CloseOf(rn) ELSE rn) EXCEPT
              !.pc = "done",
              !.outcome = IF rn.pending = "throw" THEN "thrown"
                          ELSE "returned"]
  /\ UNCHANGED exceptRn

PathNext ==
  \/ PathStart
  \/ PathInitializeBrowser
  \/ PathVerifySession
  \/ PathSearchJobs
  \/ PathApplyToJob
  \/ PathLoopDone
  \/ PathCatch
  \/ PathFinally

PathSpec == PartInit /\ [][PathNext]_vars

\* -------------------------- the paginated apply loop of the earlier run()
\* The listing page shows the jobs 1..pg.shown, in that order at every scan;
\* pg.attempted are the jobs applyToJob was called for, pg.again tells that
\* it was called for one of them once more.

\* currentJobs.slice(0, maxJobs - totalProcessed).length
SliceLength(found, room) == IF found < room THEN found ELSE room

\* The first searchJobs() of run() has found jobs; maxApplicationsPerRun is
\* read from the configuration.
PagedStart ==
  /\ pg.pc = "idle"
  /\ \E shown \in 1..MaxJobs : \E m \in 0..MaxCfg :
       pg' = [NoPg EXCEPT !.pc = "while", !.shown = shown, !.maxJobs = m]
  /\ UNCHANGED exceptPg

\* while (!allJobsProcessed && totalProcessed < maxJobs)
PagedWhile ==
  /\ pg.pc = "while"
  /\ pg' = [pg EXCEPT !.pc = IF ~pg.allJobsProcessed
                                 /\ pg.totalProcessed < pg.maxJobs
                               THEN "search" ELSE "done"]
  /\ UNCHANGED exceptPg

\* const currentJobs = await this.searchJobs(totalProcessed === 0): the scan
\* of the whole page, or nothing when the scan fails; break on nothing;
\* the slice.
PagedSearch ==
  /\ pg.pc = "search"
  /\ \E found \in {0, pg.shown} :
       pg' = IF found = 0
               THEN [pg EXCEPT !.pc = "done"]
               ELSE [pg EXCEPT !.pc = "apply", !.cur = 0,
                               !.toApply =
                                 SliceLength(found,
                                             pg.maxJobs - pg.totalProcessed)]
  /\ UNCHANGED exceptPg

\* for (const job of jobsToApply) { const success = await
\* this.applyToJob(job); if (success) { successCount++; totalProcessed++ } }
PagedApply ==
  /\ pg.pc = "apply"
  /\ pg.cur < pg.toApply
  /\ \E success \in BOOLEAN :
       pg' = [pg EXCEPT !.cur = @ + 1,
                        !.attempted = @ \cup {pg.cur + 1},
                        !.again = @ \/ (pg.cur + 1) \in pg.attempted,
                        !.totalProcessed = IF success THEN @ + 1 ELSE @]
  /\ UNCHANGED exceptPg

\* After the for loop: loadMoreJobs() when there is room left (it may put
\* more jobs on the page when it reports more), else allJobsProcessed.
PagedLoadMore ==
  /\ pg.pc = "apply"
  /\ pg.cur = pg.toApply
  /\ IF pg.totalProcessed < pg.maxJobs
       THEN \E hasMoreJobs \in BOOLEAN :
            \E shown \in pg.shown..MaxJobs :
              /\ ~hasMoreJobs => shown = pg.shown
              /\ pg' = [pg EXCEPT !.pc = "while", !.shown = shown,
                                  !.allJobsProcessed = ~hasMoreJobs]
       ELSE pg' = [pg EXCEPT !.pc = "while", !.allJobsProcessed = TRUE]
  /\ UNCHANGED exceptPg

PagedNext ==
  \/ PagedStart
  \/ PagedWhile
  \/ PagedSearch
  \/ PagedApply
  \/ PagedLoadMore

PagedSpec == PartInit /\ [][PagedNext]_vars

\* The loop keeps taking steps as long as it has one to take.
PagedFairSpec == PagedSpec /\ WF_vars(PagedNext)

\* What one call of op can leave when started in state k.
OneCall(op, k) ==
  IF op = "close"
    THEN {[k EXCEPT !.closed = k.browser = "set"]}
    ELSE {k} \cup (IF k.page /\ ~k.closed
                     THEN {[k EXCEPT !.file = k.session]} ELSE {})

\* C25: a second close() or saveSession() in a row raises no error and
\* leaves a state that a single call leaves; this holds for the close() of
\* run()'s finally after the close() of an early exit.
C25_SecondCallChangesNothing ==
  cs.again => (~cs.error /\ cs.kept \in OneCall(cs.lastOp, cs.orig))

\* run() has closed an open browser at an early exit and again in finally.
C25_Witness ==
  /\ cs.again
  /\ cs.lastOp = "close"
  /\ cs.pc = "ready"
  /\ cs.calls = 2
  /\ cs.orig.browser = "set" /\ ~cs.orig.closed
  /\ cs.kept.closed

\* C26: a run whose session is valid and whose searchJobs returns no job
\* returns found 0, applied 0, failed 0 and an empty failure list, and
\* applyToJob is never called in it.
C26_NoJobsReturnsZeroStats ==
  (pc = "done" /\ pending # "throw" /\ jobs = <<>>) =>
    /\ result.kind = "returned"
    /\ result.jobsFound = 0
    /\ result.jobsApplied = 0
    /\ result.jobsFailed = 0
    /\ result.failedJobs = <<>>
    /\ Len(log) = 0

\* A run with a session that was accepted has ended after a search that
\* gave no job.
C26_Witness ==
  /\ pc = "done"
  /\ pending # "throw"
  /\ jobs = <<>>
  /\ page = ListingPage
  /\ browser = "closed"

\* The stages of a workflow in their order.
StageOrder == <<"autofill", "apply", "form", "submit", "confirm">>

Rank(stage) == CHOOSE r \in 1..Len(StageOrder) : StageOrder[r] = stage

StagesOf(w) == {w.stages[k] : k \in 1..Len(w.stages)}

C28_SuccessNeedsIndicator ==
  (wf.submitActivated /\ wf.ok) => wf.indicatorSeen

\* The workflow found no submit button and went to the confirmation wait.
NoSubmitControl(w) ==
  "confirm" \in StagesOf(w) /\ "submit" \notin StagesOf(w)

C30_ExemptSelectLeftAlone ==
  ff.last.exempt =>
    (~ff.last.consulted /\ ~ff.last.called /\ ff.last.selected = "")

\* C31: between two consecutive application attempts of a run exactly one
\* delay is waited and none after the last: while the k-th attempt runs
\* k - 1 delays have been waited, and a run that has gone through its whole
\* list of n jobs has waited n - 1.
C31_OneDelayBetweenAttempts ==
  /\ delays <= idx
  /\ inflight # {} => delays = idx - 1
  /\ (idx > 0 /\ idx = Len(jobsToApply)) => delays = idx - 1

\* A run has attempted three jobs and waited twice.
C31_Witness ==
  /\ pc = "done"
  /\ NumAttempts = 3
  /\ delays = 2

\* C32: in every result that runWithStats returns, jobsApplied + jobsFailed
\* is the number of jobs attempted, min(jobsFound, maximum), and no job has
\* more than one entry in the failure list.
C32_AppliedPlusFailedIsAttempted ==
  (pc = "done" /\ result.kind = "returned") =>
    /\ result.jobsApplied + result.jobsFailed = Len(jobsToApply)
    /\ \A i \in 1..Len(result.failedJobs) :
       \A j \in 1..Len(result.failedJobs) :
         i # j => result.failedJobs[i].job # result.failedJobs[j].job

\* C33: whenever applyToJob starts, this.page is the listing page: the
\* workflow before it, whatever its outcome, has closed its job tab and made
\* the listing page the active page again.
C33_ApplyStartsOnListingPage ==
  pc = "open" => page = ListingPage

\* s is a prefix of t
IsPrefix(s, t) == Len(s) <= Len(t) /\ SubSeq(t, 1, Len(s)) = s

\* How often the record e of a list is among the records handed to saveBatch
\* as type.
TimesPassed(p, e, type) == Occurrences(p, Typed(e, type))

\* One step hands a list over as a whole or not at all: every record of
\* the list is among the records handed over once more, or none is.
WholeListOrNothing(list, type) ==
  \/ \A k \in 1..Len(list) :
       TimesPassed(passed', list[k], type) = TimesPassed(passed, list[k], type)
  \/ \A k \in 1..Len(list) :
       TimesPassed(passed', list[k], type)
         = TimesPassed(passed, list[k], type) + 1

\* C34: the two lists of the journal only grow, and every flush hands the
\* whole list gathered so far to saveBatch, so that a record that is in its
\* list during n flushes is handed over n times.
C34_WholeListEveryFlush ==
  [][/\ IsPrefix(failedSubmissions, failedSubmissions')
     /\ IsPrefix(failedApplications, failedApplications')
     /\ IsPrefix(passed, passed')
     /\ WholeListOrNothing(failedSubmissions', "submission")
     /\ WholeListOrNothing(failedApplications', "application")]_vars

\* Two failed submissions in one run: the first record was flushed three
\* times (at its failure, at the second failure, at the end), the second
\* twice.
C34_Witness ==
  /\ pc = "done"
  /\ Len(failedSubmissions) = 2
  /\ TimesPassed(passed, failedSubmissions[1], "submission") = 3
  /\ TimesPassed(passed, failedSubmissions[2], "submission") = 2

\* C35: a workflow in which a success indicator was observed returns
\* success and leaves no record of its job in the failure journal, also when
\* closing the job tab or switching back to the listing page raises an
\* error.
C35_ObservedSuccessIsReported ==
  (pc = "ret" /\ wf.indicatorSeen) =>
    (wf.ok /\ ~Journaled(wf.job, AllReasons))

\* C36: a "no success confirmation" record is appended only when
\* failedSubmissions holds no earlier record with the same job title; so
\* of two jobs with the same title that both fail confirmation the later
\* one gets no such record.
C36_FinalRecordOncePerTitle ==
  /\ \A k \in 1..Len(failedSubmissions) :
       failedSubmissions[k].reason = "no_confirmation" =>
         \A i \in 1..(k - 1) :
           failedSubmissions[i].title # failedSubmissions[k].title
  /\ \A i \in 1..Len(jobs) : \A j \in 1..Len(jobs) :
       (i < j /\ jobs[i] = jobs[j] /\ Ended(i, FALSE, "unconfirmed"))
         => ~Journaled(j, {"no_confirmation"})

\* Two jobs with the same title have both failed confirmation; the first
\* has the final record and the second has no record at all.
C36_Witness ==
  /\ Len(jobs) >= 2
  /\ jobs[1] = jobs[2]
  /\ Ended(1, FALSE, "unconfirmed")
  /\ Ended(2, FALSE, "unconfirmed")
  /\ Journaled(1, {"no_confirmation"})
  /\ ~Journaled(2, AllReasons)

\* C37: when run() or runWithStats() has terminated, by a normal end, a
\* missing or invalid session, an empty search or an exception, no browser
\* process is left running and close() was called after the last browser
\* operation.
C37_BrowserClosedOnEveryPath ==
  rn.pc = "done" => (rn.proc # "running" /\ rn.tabs = 0 /\ rn.closeLast)

\* runWithStats() has thrown after the search failed with the browser
\* running, and the browser is closed.
C37_Witness ==
  /\ rn.pc = "done"
  /\ rn.which = "runWithStats"
  /\ rn.outcome = "thrown"
  /\ rn.page
  /\ rn.proc = "closed"
  /\ rn.closeLast

\* C38: the paginated apply loop of the earlier run() always terminates,
\* also when every application fails and loadMoreJobs keeps reporting more
\* jobs, and it never calls applyToJob for a job it has attempted before.
C38_PaginatedLoopTerminates ==
  /\ <>(pg.pc = "done")
  /\ [](~pg.again)

\* The response as generateYesNoAnswer reads it: trimmed, in lower case.
Read(outcome) == ToLower(Trim(outcome.content))

\* The oracle is not configured, the call failed, or the response starts
\* with none of the given words and with none of the given letters standing
\* alone.
NoUsableResponse(l, starts, letters) ==
  \/ ~ff.configured
  \/ l.outcome.kind = "error"
  \/ /\ \A w \in starts : ~StartsWith(Read(l.outcome), w)
     /\ \A c \in letters :
          ~(StartsWith(Read(l.outcome), <<c>>)
            /\ WordEndsAfterFirst(Read(l.outcome)))

\* C39 as stated: the answer handed to the option matching is "yes" or
\* "no", and it is "no" whenever the oracle is not configured, the call
\* fails, or the response starts with neither yes nor no.
C39_NoUnlessYesOrNo ==
  ff.last.aiAnswer # "" =>
    /\ ff.last.aiAnswer \in {"yes", "no"}
    /\ NoUsableResponse(ff.last, {<<"y", "e", "s">>, <<"n", "o">>}, {})
         => ff.last.aiAnswer = "no"

\* C39 amended: the answer handed to the option matching is "yes" or "no",
\* and it is "no" whenever the oracle is not configured, the call fails, or
\* the response starts with neither yes, nor no, nor a y standing alone.
C39_NoUnlessYesNoOrY ==
  ff.last.aiAnswer # "" =>
    /\ ff.last.aiAnswer \in {"yes", "no"}
    /\ NoUsableResponse(ff.last, {<<"y", "e", "s">>, <<"n", "o">>}, {"y"})
         => ff.last.aiAnswer = "no"

\* The oracle was asked and its response starts with neither yes nor no
\* nor a y standing alone; the answer is "no".
C39_Witness ==
  /\ ff.last.called
  /\ ff.last.outcome.kind = "response"
  /\ Read(ff.last.outcome) = <<"m", "a", "y">>
  /\ ff.last.aiAnswer = "no"

====
